---- MODULE Spec2Model ----
(***************************************************************************)
(* A model of rest/client.py: the FTX REST client.                         *)
(*                                                                         *)
(*   - get_all_trades, the paginating trade-history aggregator, against    *)
(*     an exchange that honours the listing contract (SpecIdeal) and       *)
(*     against an arbitrary server (SpecAdv, FairSpecAdv);                 *)
(*   - slow_down, the decorator that pads short calls (SpecThrottle);      *)
(*   - _request / _sign_request / _process_response and the order          *)
(*     operations that validate their arguments (SpecClient).              *)
(*                                                                         *)
(* Times are integers.  In the aggregator one unit is one clock tick of    *)
(* the exchange; in the throttle one unit is one millisecond.              *)
(***************************************************************************)
EXTENDS Integers, Sequences, FiniteSets, TLC

VARIABLES
    \* ---- get_all_trades
    market,        \* the exchange's trade tape, oldest first
    pc,            \* "idle" | "loop" | "returned" | "failed"
    start_time,    \* the argument start_time (None or an instant)
    end_time,      \* the local end_time: the argument, then the cursor
    ids,           \* the set ids
    results,       \* the list results
    returned,      \* the value handed back by return results
    calls,         \* number of self._get calls made by this aggregation
    window,        \* the caller's [start_time, end_time], kept for reference
    pages,         \* what the fetched pages were: seen = identifiers on any page,
                   \* overlap = a page repeated an identifier of an earlier page,
                   \* clean = no page listed an identifier twice, honest = no page
                   \* held a trade later than the end_time asked for, first = page 1
    fetch_gap,     \* ms between the starts of the last two page fetches
    \* ---- slow_down
    t_pc,          \* "ready" | "running" | "measured"
    t_since,       \* ms since the latest wrapped call started (since t0)
    t_took,        \* elapsed, as wrapper_slow_down measured it
    t_gap,         \* ms between the starts of the last two wrapped calls
    t_prev,        \* how the wrapped call before the latest one ended
    t_last,        \* how the latest wrapped call ended
    \* ---- one request through the client
    c_pc,          \* "ready" | "sent" | "done"
    c_subaccount,  \* self._subaccount_name, set at construction
    c_op,          \* the public operation called and its arguments
    c_request,     \* the Request built by _request
    c_signed,      \* signature payloads computed by _sign_request
    c_wire,        \* prepared requests handed to Session.send
    c_response,    \* the Response the session came back with
    c_outcome      \* how the public operation ended

aggVars == <<market, pc, start_time, end_time, ids, results, returned, calls,
             window, pages, fetch_gap>>
thrVars == <<t_pc, t_since, t_took, t_gap, t_prev, t_last>>
cliVars == <<c_pc, c_subaccount, c_op, c_request, c_signed, c_wire, c_response,
             c_outcome>>
vars == <<aggVars, thrVars, cliVars>>

\* Optional values: None is the empty tuple, a present value v is <<v>>.
None == <<>>

Some(v) == <<v>>

\* ------------------------------------------------------------------ bounds
\* Instants of the modelled trade tape are 1..MaxT.
MaxT == 3
\* Instants an arbitrary server stamps its records with are 1..MaxPageT.
MaxPageT == 2
\* The counter of listing calls saturates here.
MaxCalls == 2

\* ------------------------------------------------------------ get_all_trades
limit == 100

\* A trade record as the exchange sends it: an identifier and an ISO-8601
\* time, i.e. a wall-clock reading together with its UTC offset.
Trade(i, wall, off) == [id |-> i, time |-> [wall |-> wall, off |-> off]]

\* parse_datetime(t["time"]).timestamp(): the absolute instant of a record.
Timestamp(t) == t.time.wall - t.time.off

Reverse(s) == [i \in 1..Len(s) |-> s[Len(s) + 1 - i]]

Range(s) == {s[i] : i \in 1..Len(s)}

\* min(parse_datetime(t["time"]) for t in response).timestamp()
MinTimestamp(response) ==
    LET T == {Timestamp(response[i]) : i \in 1..Len(response)}
    IN  CHOOSE m \in T : \A x \in T : m <= x

Deduped_KeepAll(response, seen) == response

\* [r for r in response if r["id"] not in ids]
Deduped(response, seen) == SelectSeq(response, LAMBDA r : r.id \notin seen)

InWindow(t, st, et) ==
    /\ (st = None \/ Timestamp(t) >= st[1])
    /\ (et = None \/ Timestamp(t) <= et[1])

\* ---- the listing endpoint GET markets/{market}/trades as the exchange
\* documents it: the at most `limit` latest trades of the window, latest first.
\* Which of several trades sharing the boundary instant make it into a full
\* page is the exchange's choice: `high` takes those latest on the tape,
\* otherwise those earliest on the tape.
ListTrades(tape, st, et, high) ==
    LET F  == SelectSeq(tape, LAMBDA t : InWindow(t, st, et))
        n  == Len(F)
    IN  IF n <= limit THEN Reverse(F)
        ELSE IF high THEN Reverse(SubSeq(F, n - limit + 1, n))
        ELSE LET tb == Timestamp(F[n - limit + 1])
                 lo == CHOOSE i \in 1..n :
                          /\ Timestamp(F[i]) = tb
                          /\ (i = 1 \/ Timestamp(F[i - 1]) < tb)
                 hi == CHOOSE i \in 1..n :
                          /\ Timestamp(F[i]) = tb
                          /\ (i = n \/ Timestamp(F[i + 1]) > tb)
                 m  == limit - (n - hi)
             IN  Reverse(SubSeq(F, hi + 1, n)) \o Reverse(SubSeq(F, lo, lo + m - 1))

\* Trade tapes of the model: cnt[t] trades at each instant t, identifiers in
\* tape order, the UTC offset of the time string alternating.
Counts == {0, 2, limit - 1, limit}

RECURSIVE Before(_, _)
Before(cnt, t) == IF t <= 1 THEN 0 ELSE Before(cnt, t - 1) + cnt[t - 1]

Tape(cnt) ==
    LET N == Before(cnt, MaxT + 1)
        At(i) == CHOOSE t \in 1..MaxT : Before(cnt, t) < i /\ i <= Before(cnt, t + 1)
    IN  [i \in 1..N |-> Trade(i, At(i) + (i % 2), i % 2)]

Tapes == {Tape(cnt) : cnt \in [1..MaxT -> Counts]}

\* Pages an arbitrary server may answer with: n records, identifiers counting
\* up from `first`, all stamped with instant t; with `dup` the second record
\* repeats the identifier of the first.
AdvPage(n, first, dup, t) ==
    [i \in 1..n |->
        Trade(IF dup /\ i = 2 THEN first ELSE first + i - 1, t + (i % 2), i % 2)]

AdvPages ==
    {AdvPage(n, first, FALSE, t) :
        n \in {0, 2, limit - 1, limit}, first \in {1, limit}, t \in 1..MaxPageT}
    \cup {AdvPage(n, 1, TRUE, t) : n \in {2, limit}, t \in 1..MaxPageT}

\* Round-trip times of one listing request, in ms.
Durations == {10, 60}

Instants(last) == {None} \cup {Some(t) : t \in 1..last}

PageIds(response) == {response[i].id : i \in 1..Len(response)}

NoDuplicate(response) == Cardinality(PageIds(response)) = Len(response)

LoopEnds_EmptyOnly(response) == Len(response) = 0

\* while True: the loop ends on an empty page and on a page shorter than limit
LoopEnds(response) == Len(response) = 0 \/ Len(response) < limit

NextEndTime_Below(response, et) ==
    IF Len(response) = 0 THEN et ELSE Some(MinTimestamp(response) - 1)

NextEndTime_Above(response, et) ==
    IF Len(response) = 0 THEN et ELSE Some(MinTimestamp(response) + 1)

\* end_time = min(...).timestamp(), skipped by the break on an empty page
NextEndTime(response, et) ==
    IF Len(response) = 0 THEN et ELSE Some(MinTimestamp(response))

AggInit ==
    /\ pc = "idle"
    /\ start_time = None
    /\ end_time = None
    /\ ids = {}
    /\ results = <<>>
    /\ returned = <<>>
    /\ calls = 0
    /\ window = [start |-> None, end |-> None]
    /\ pages = [seen |-> {}, overlap |-> FALSE, clean |-> TRUE, honest |-> TRUE,
                first |-> <<>>]
    /\ fetch_gap = [took |-> None, gap |-> None]

\* get_all_trades(market, start_time, end_time): lines 372-374
GetAllTrades(st, et) ==
    /\ pc = "idle"
    /\ pc' = "loop"
    /\ start_time' = st
    /\ end_time' = et
    /\ window' = [start |-> st, end |-> et]
    /\ ids' = {}
    /\ results' = <<>>
    /\ UNCHANGED <<market, returned, calls, pages, fetch_gap>>

\* One turn of the while loop, the listing call answering `response` after d ms.
Iterate(response, d) ==
    /\ pc = "loop"
    /\ LET deduped_trades == Deduped(response, ids)
       IN  /\ results' = results \o deduped_trades
           /\ ids' = ids \cup PageIds(deduped_trades)
           /\ end_time' = NextEndTime(response, end_time)
           /\ pc' = IF LoopEnds(response) THEN "returned" ELSE "loop"
           /\ returned' = IF LoopEnds(response) THEN results' ELSE returned
    /\ calls' = IF calls < MaxCalls THEN calls + 1 ELSE calls
    /\ pages' = [seen   |-> pages.seen \cup PageIds(response),
                 overlap |-> pages.overlap \/ PageIds(response) \cap pages.seen # {},
                 clean  |-> pages.clean /\ NoDuplicate(response),
                 honest |-> pages.honest /\
                            \A i \in 1..Len(response) :
                                InWindow(response[i], None, end_time),
                 first  |-> IF calls = 0 THEN response ELSE pages.first]
    /\ fetch_gap' = [took |-> Some(d), gap |-> fetch_gap.took]
    /\ UNCHANGED <<market, start_time, window>>

\* self._get raises (a transport or domain error): the aggregation fails and
\* nothing is returned.
GetRaises ==
    /\ pc = "loop"
    /\ pc' = "failed"
    /\ UNCHANGED <<market, start_time, end_time, ids, results, returned, calls,
                   window, pages, fetch_gap>>

IterateIdeal ==
    \E high \in BOOLEAN, d \in Durations :
        Iterate(ListTrades(market, start_time, end_time, high), d)

\* How long a request takes plays no part in what is aggregated; one round-trip
\* time stands for all of them here.
IterateAdv == \E response \in AdvPages, d \in {60} : Iterate(response, d)

CallIdeal == \E st \in Instants(MaxT), et \in Instants(MaxT) : GetAllTrades(st, et)

CallAdv ==
    \E st \in Instants(MaxPageT), et \in Instants(MaxPageT) : GetAllTrades(st, et)


ThrottleInit ==
    /\ t_pc = "ready" /\ t_since = 0 /\ t_took = 0 /\ t_gap = None
    /\ t_prev = None /\ t_last = None

\* FtxClient(api_key, api_secret, subaccount_name)
ClientInit ==
    /\ c_pc = "ready" /\ c_op = [name |-> "none"] /\ c_request = <<>>
    /\ c_signed = <<>> /\ c_wire = <<>> /\ c_response = [status |-> 0]
    /\ c_outcome = [kind |-> "none"]
    /\ c_subaccount \in {None, Some("my sub")}

OtherInit == ThrottleInit /\ ClientInit /\ c_subaccount = None

\* ---- get_all_trades against an exchange that honours the listing contract
InitIdeal == AggInit /\ market \in Tapes /\ OtherInit

NextIdeal ==
    \/ CallIdeal /\ UNCHANGED <<thrVars, cliVars>>
    \/ IterateIdeal /\ UNCHANGED <<thrVars, cliVars>>

SpecIdeal == InitIdeal /\ [][NextIdeal]_vars

\* ---- get_all_trades against an arbitrary server
InitAdv == AggInit /\ market = <<>> /\ OtherInit

NextAdv ==
    \/ CallAdv /\ UNCHANGED <<thrVars, cliVars>>
    \/ IterateAdv /\ UNCHANGED <<thrVars, cliVars>>
    \/ GetRaises /\ UNCHANGED <<thrVars, cliVars>>

SpecAdv == InitAdv /\ [][NextAdv]_vars

\* The interpreter keeps running the loop: a step that can be taken is taken.
FairSpecAdv == SpecAdv /\ WF_vars(NextAdv)


\* ======================================================= get_all_trades claims

\* a # None and b # None and a <= b, an open bound being the greatest value
EndLeq(a, b) == b = None \/ (a # None /\ a[1] <= b[1])

\* C1: against an exchange that answers each listing call with the at most
\* `limit` latest trades of [start_time, end_time], whenever get_all_trades
\* returns, every trade of the tape whose time lies in the caller's window is in
\* the returned list.
Completeness ==
    pc = "returned" =>
        \A i \in 1..Len(market) :
            InWindow(market[i], window.start, window.end) =>
                market[i] \in Range(returned)

\* A return after several pages whose boundary records were fetched twice.
CompletenessWitness ==
    /\ pc = "returned"
    /\ calls >= 2
    /\ pages.overlap
    /\ Len(returned) > limit
    /\ \E i \in 1..Len(market) : ~InWindow(market[i], window.start, window.end)

\* C2 as stated: whatever pages the server sends, the returned list holds each
\* identifier seen on any page exactly once.
DedupAnyPages ==
    pc = "returned" =>
        /\ PageIds(returned) = pages.seen
        /\ Len(returned) = Cardinality(pages.seen)

\* C2, amended: the same, for runs in which no single page lists an identifier
\* twice.
DedupCleanPages ==
    (pc = "returned" /\ pages.clean) =>
        /\ PageIds(returned) = pages.seen
        /\ Len(returned) = Cardinality(pages.seen)

\* Two pages overlapped in an identifier whose record differs between them.
DedupWitness ==
    /\ pc = "returned"
    /\ pages.clean
    /\ pages.overlap
    /\ calls >= 2
    /\ \E i \in 1..Len(returned) :
          /\ returned[i].id = limit
          /\ Timestamp(returned[i]) # end_time[1]

\* C3: an aggregation that has entered its loop ends: it returns, or it fails.
Terminates == (pc = "loop") ~> (pc \in {"returned", "failed"})

\* C4: a first page shorter than `limit` (an empty one too) ends the
\* aggregation after that one listing call, and the page is what is returned.
SingleCall ==
    (calls >= 1 /\ Len(pages.first) < limit) =>
        /\ pc = "returned"
        /\ calls = 1
        /\ returned = pages.first

SingleCallWitness ==
    /\ pc = "returned"
    /\ calls = 1
    /\ Len(pages.first) = limit - 1
    /\ returned = pages.first

\* C10 as stated: whatever pages the server sends, the end_time of a listing
\* call is never greater than the end_time of the call before it.
CursorMonotone ==
    [][(pc = "loop" /\ pc' = "loop") => EndLeq(end_time', end_time)]_vars

\* C10, amended: the same, as long as no page holds a trade later than the
\* end_time its request asked for.
CursorMonotoneHonest ==
    [][(pc = "loop" /\ pc' = "loop" /\ pages'.honest) =>
            EndLeq(end_time', end_time)]_vars

\* The cursor has moved below the caller's end_time over honest pages.
CursorMonotoneWitness ==
    /\ pc = "loop"
    /\ calls >= 2
    /\ pages.honest
    /\ window.end # None
    /\ end_time[1] < window.end[1]

\* ------------------------------------------------------------------ throttle
\* if elapsed < 0.05: the floor, in ms
min_gap_ms == 50

\* C5: any two consecutive page fetches of one aggregation start at least
\* 50 ms apart.
PageFetchesThrottled == fetch_gap.gap # None => fetch_gap.gap[1] >= min_gap_ms


\* ---- slow_down: one caller making public calls one after the other
\* How long the wrapped function runs, in ms.
FuncTimes == {0, 10, 49, 50, 51, 80}

\* What the caller does between one call's end and the next call's start, in ms.
IdleTimes == {0, 5}

\* time.sleep suspends for at least the time asked for, possibly longer.
Oversleep == {0, 1}

\* if elapsed < 0.05: time.sleep(0.05 - elapsed)
Sleep(elapsed) == IF elapsed < min_gap_ms THEN min_gap_ms - elapsed ELSE 0

\* The caller invokes a public operation: t0 = time.perf_counter()
WrapperEnters(idle) ==
    /\ t_pc = "ready"
    /\ t_pc' = "running"
    /\ t_gap' = IF t_last = None THEN None ELSE Some(t_since + idle)
    /\ t_prev' = t_last
    /\ t_since' = 0
    /\ UNCHANGED <<t_took, t_last>>

\* value = func(*args, **kwargs) returns after d ms; elapsed is measured
FuncReturns(d) ==
    /\ t_pc = "running"
    /\ t_pc' = "measured"
    /\ t_since' = d
    /\ t_took' = d
    /\ UNCHANGED <<t_gap, t_prev, t_last>>

\* func raises after d ms: the exception leaves wrapper_slow_down at line 15
FuncRaises(d) ==
    /\ t_pc = "running"
    /\ t_pc' = "ready"
    /\ t_since' = d
    /\ t_last' = Some("raised")
    /\ UNCHANGED <<t_took, t_gap, t_prev>>

\* the padding sleep, then return value
WrapperReturns(over) ==
    /\ t_pc = "measured"
    /\ t_pc' = "ready"
    /\ t_since' = t_since + (IF Sleep(t_took) > 0 THEN Sleep(t_took) + over ELSE 0)
    /\ t_last' = Some("returned")
    /\ UNCHANGED <<t_took, t_gap, t_prev>>

InitThrottle == AggInit /\ market = <<>> /\ OtherInit

NextThrottle ==
    \/ (\E idle \in IdleTimes : WrapperEnters(idle)) /\ UNCHANGED <<aggVars, cliVars>>
    \/ (\E d \in FuncTimes : FuncReturns(d)) /\ UNCHANGED <<aggVars, cliVars>>
    \/ (\E d \in FuncTimes : FuncRaises(d)) /\ UNCHANGED <<aggVars, cliVars>>
    \/ (\E over \in Oversleep : WrapperReturns(over)) /\ UNCHANGED <<aggVars, cliVars>>

SpecThrottle == InitThrottle /\ [][NextThrottle]_vars

\* C6: of two consecutive public calls, the second starts no earlier than
\* 50 ms after the first started, however the first ended.
ThrottleFloor == t_gap # None => t_gap[1] >= min_gap_ms


\* ------------------------------------------------ requests and their encoding
\* Parameters are a list of <<name, value>>, a value being None or Some(text).

\* Request.prepare() on params=: the query string. A parameter whose value is
\* None is left out of it.
EncodeParams(params) ==
    LET kept == SelectSeq(params, LAMBDA kv : kv[2] # None)
    IN  [i \in 1..Len(kept) |-> <<kept[i][1], kept[i][2][1]>>]

\* Request.prepare() on json=: the body is the JSON text of the dictionary,
\* in which a None value is written as null.
EncodeJson(obj) ==
    [i \in 1..Len(obj) |-> <<obj[i][1], IF obj[i][2] = None THEN "null" ELSE obj[i][2][1]>>]

\* Request(method, self._ENDPOINT + path, **kwargs): params= or json= is None
\* when the keyword is not given or the caller passed no dictionary.
Request(method, path, params, json) ==
    [method |-> method, path |-> path, params |-> params, json |-> json]

\* request.prepare(): method, path_url (path and query string) and body
Prepare(request) ==
    [method   |-> request.method,
     path_url |-> [path  |-> request.path,
                   query |-> IF request.params = None THEN <<>>
                             ELSE EncodeParams(request.params[1])],
     body     |-> IF request.json = None THEN None
                  ELSE Some(EncodeJson(request.json[1]))]

\* signature_payload = f"{ts}{prepared.method}{prepared.path_url}" + body
SignaturePayload(ts, prepared) ==
    [ts |-> ts, method |-> prepared.method, path_url |-> prepared.path_url,
     body |-> prepared.body]

\* urllib.parse.quote on the subaccount names of the model
Quote(name) == IF name = "my sub" THEN "my%20sub" ELSE name

\* The headers _sign_request sets on the request.
SignedHeaders(ts, prepared, subaccount) ==
    [key  |-> "api_key",
     sign |-> <<"hmac-sha256", "api_secret", SignaturePayload(ts, prepared)>>,
     ts   |-> ts,
     subaccount |-> IF subaccount = None THEN None ELSE Some(Quote(subaccount[1]))]

\* ---- the public operations of the model and the request each one builds
Optional(S) == {None} \cup {Some(x) : x \in S}

Operations ==
    [name : {"get_orderbook"}, depth : Optional({"20"})]
    \cup [name : {"place_order"}, client_id : Optional({"c1"})]
    \cup [name : {"cancel_orders"}, market_name : Optional({"BTC-PERP"})]
    \cup [name : {"cancel_order"}, order_id : {"7"}]
    \cup [name : {"modify_order"},
          existing_order_id : Optional({"7"}),
          existing_client_order_id : Optional({"c7"}),
          price : Optional({"100"}), size : Optional({"2"}),
          client_order_id : Optional({"c8"})]
    \cup [name : {"place_conditional_order"},
          order_type : {"stop", "takeProfit", "trailingStop", "limit"},
          limit_price : Optional({"99"}), triggerPrice : Optional({"98"}),
          trailValue : Optional({"5"})]

ModifyOrderAsserts_AtLeastOne(op) ==
    /\ (op.existing_order_id # None \/ op.existing_client_order_id # None)
    /\ (op.price = None \/ op.size = None)

\* the two assert statements of modify_order
ModifyOrderAsserts(op) ==
    /\ (op.existing_order_id = None) # (op.existing_client_order_id = None)
    /\ (op.price = None \/ op.size = None)

\* the three assert statements of place_conditional_order
PlaceConditionalOrderAsserts(op) ==
    /\ op.order_type \in {"stop", "takeProfit", "trailingStop"}
    /\ (op.order_type \notin {"stop", "takeProfit"} \/ op.triggerPrice # None)
    /\ (op.order_type \notin {"trailingStop"}
            \/ (op.triggerPrice = None /\ op.trailValue # None))

\* Whether the operation's own checks let it go on to self._get/_post/_delete.
Asserts(op) ==
    CASE op.name = "modify_order" -> ModifyOrderAsserts(op)
      [] op.name = "place_conditional_order" -> PlaceConditionalOrderAsserts(op)
      [] OTHER -> TRUE

\* {**({"size": size} if size is not None else {}), ...}
Given(name, value) == IF value = None THEN <<>> ELSE <<<<name, value>>>>

\* The Request an operation that passed its checks builds.
BuildRequest(op) ==
    CASE op.name = "get_orderbook" ->
            Request("GET", "markets/BTC-PERP/orderbook",
                    Some(<< <<"depth", op.depth>> >>), None)
      [] op.name = "place_order" ->
            Request("POST", "orders", None,
                    Some(<< <<"market", Some("BTC-PERP")>>, <<"side", Some("buy")>>,
                            <<"price", Some("100")>>, <<"size", Some("1")>>,
                            <<"type", Some("limit")>>, <<"reduceOnly", Some("false")>>,
                            <<"ioc", Some("false")>>, <<"postOnly", Some("false")>>,
                            <<"clientId", op.client_id>> >>))
      [] op.name = "cancel_orders" ->
            Request("DELETE", "orders", None,
                    Some(<< <<"market", op.market_name>>,
                            <<"conditionalOrdersOnly", Some("false")>>,
                            <<"limitOrdersOnly", Some("false")>> >>))
      [] op.name = "cancel_order" ->
            Request("DELETE", "orders/7", None, None)
      [] op.name = "modify_order" ->
            Request("POST",
                    IF op.existing_order_id # None THEN "orders/7/modify"
                    ELSE "orders/by_client_id/c7/modify",
                    None,
                    Some(Given("size", op.size) \o Given("price", op.price)
                         \o Given("clientId", op.client_order_id)))
      [] op.name = "place_conditional_order" ->
            IF op.order_type = "trailingStop"
            THEN Request("POST", "conditional_orders", None,
                    Some(<< <<"market", Some("BTC-PERP")>>, <<"side", Some("sell")>>,
                            <<"trailValue", op.trailValue>>, <<"size", Some("1")>>,
                            <<"reduceOnly", Some("false")>>,
                            <<"type", Some(op.order_type)>>,
                            <<"cancelLimitOnTrigger", Some("true")>> >>))
            ELSE Request("POST", "conditional_orders", None,
                    Some(<< <<"market", Some("BTC-PERP")>>, <<"side", Some("sell")>>,
                            <<"triggerPrice", op.triggerPrice>>, <<"size", Some("1")>>,
                            <<"reduceOnly", Some("false")>>,
                            <<"type", Some(op.order_type)>>,
                            <<"cancelLimitOnTrigger", Some("true")>>,
                            <<"orderPrice", op.limit_price>> >>))


\* ---- responses
\* Bodies: text that is no JSON, a JSON array, and JSON objects: the envelopes
\* of the API and objects that lack the envelope's keys.
Bodies ==
    {[kind |-> "text"], [kind |-> "array"]}
    \cup {[kind |-> "object", data |-> d] :
            d \in {[success |-> TRUE, result |-> "r1"],
                   [success |-> TRUE, result |-> "r2"],
                   [success |-> FALSE, error |-> "bad request"],
                   [success |-> FALSE, error |-> "Not logged in"],
                   [success |-> TRUE],
                   [success |-> FALSE],
                   [message |-> "Bad Gateway"]}}

Responses == [status : {200, 400, 502}, body : Bodies]

\* A body that is the envelope of the API: the success flag and, by the flag,
\* the result or the error.
IsEnvelope(body) ==
    /\ body.kind = "object"
    /\ "success" \in DOMAIN body.data
    /\ IF body.data.success THEN "result" \in DOMAIN body.data
       ELSE "error" \in DOMAIN body.data

Raised(kind, detail) == [kind |-> kind, detail |-> detail]

ProcessResponse_IgnoresFlag(response) ==
    IF response.body.kind = "text"
    THEN IF response.status >= 400 THEN Raised("HTTPError", "status")
         ELSE Raised("ValueError", "no JSON")
    ELSE IF response.body.kind # "object" THEN Raised("TypeError", "success")
    ELSE IF "result" \in DOMAIN response.body.data
         THEN [kind |-> "return", detail |-> response.body.data.result]
         ELSE Raised("KeyError", "result")

\* _process_response: response.json() raises ValueError on a body that is no
\* JSON, and then raise_for_status() raises HTTPError on a 4xx or 5xx status,
\* else the ValueError is re-raised; data["k"] raises KeyError on an object
\* without k and TypeError on an array.
ProcessResponse(response) ==
    IF response.body.kind = "text"
    THEN IF response.status >= 400 THEN Raised("HTTPError", "status")
         ELSE Raised("ValueError", "no JSON")
    ELSE IF response.body.kind # "object" THEN Raised("TypeError", "success")
    ELSE LET data == response.body.data
         IN  IF "success" \notin DOMAIN data THEN Raised("KeyError", "success")
             ELSE IF ~data.success
                  THEN IF "error" \in DOMAIN data
                       THEN Raised("Exception", data.error)
                       ELSE Raised("KeyError", "error")
                  ELSE IF "result" \in DOMAIN data
                       THEN [kind |-> "return", detail |-> data.result]
                       ELSE Raised("KeyError", "result")

\* int(time.time() * 1000) at signing time
Clock == {1, 2}

\* A public operation is called: its assert statements, then _get/_post/_delete
\* -> _request: the Request is built, signed and handed to Session.send.
PublicCall(op, ts) ==
    /\ c_pc = "ready"
    /\ c_op' = op
    /\ IF ~Asserts(op)
       THEN /\ c_pc' = "done"
            /\ c_outcome' = Raised("AssertionError", op.name)
            /\ UNCHANGED <<c_request, c_signed, c_wire>>
       ELSE LET request  == BuildRequest(op)
                prepared == Prepare(request)
                headers  == SignedHeaders(ts, prepared, c_subaccount)
            IN  /\ c_request' = [request |-> request, headers |-> headers]
                /\ c_signed' = Append(c_signed, SignaturePayload(ts, prepared))
                /\ c_wire' = Append(c_wire, [prepared |-> Prepare(request),
                                             headers  |-> headers])
                /\ c_pc' = "sent"
                /\ UNCHANGED c_outcome
    /\ UNCHANGED <<c_subaccount, c_response>>

\* Session.send returns a Response; _process_response decides the outcome.
Respond(response) ==
    /\ c_pc = "sent"
    /\ c_pc' = "done"
    /\ c_response' = response
    /\ c_outcome' = ProcessResponse(response)
    /\ UNCHANGED <<c_subaccount, c_op, c_request, c_signed, c_wire>>

\* Session.send raises (connection refused, timeout): it propagates.
SendRaises ==
    /\ c_pc = "sent"
    /\ c_pc' = "done"
    /\ c_outcome' = Raised("ConnectionError", "send")
    /\ UNCHANGED <<c_subaccount, c_op, c_request, c_signed, c_wire, c_response>>

InitClient == AggInit /\ market = <<>> /\ ThrottleInit /\ ClientInit

NextClient ==
    \/ (\E op \in Operations, ts \in Clock : PublicCall(op, ts))
            /\ UNCHANGED <<aggVars, thrVars>>
    \/ (\E response \in Responses : Respond(response)) /\ UNCHANGED <<aggVars, thrVars>>
    \/ SendRaises /\ UNCHANGED <<aggVars, thrVars>>

SpecClient == InitClient /\ [][NextClient]_vars

\* ================================================================ client claims

Keys(pairs) == {pairs[i][1] : i \in 1..Len(pairs)}

\* The parameters of the request that were None.
NoneParams(request) ==
    LET given == (IF request.params = None THEN <<>> ELSE request.params[1])
                 \o (IF request.json = None THEN <<>> ELSE request.json[1])
    IN  {given[i][1] : i \in {j \in 1..Len(given) : given[j][2] = None}}

\* C7: no parameter whose value is None appears in the query string or in the
\* body of a request handed to the session, and what was signed is what is sent.
NullStripped ==
    \A i \in 1..Len(c_wire) :
        LET w == c_wire[i].prepared
        IN  /\ NoneParams(c_request.request) \cap Keys(w.path_url.query) = {}
            /\ w.body # None => NoneParams(c_request.request) \cap Keys(w.body[1]) = {}
            /\ c_signed[i].path_url = w.path_url
            /\ c_signed[i].body = w.body

\* C8 as stated: a body that decodes as structured data is unwrapped by its
\* success flag; any other body ends in a transport-level error.
EnvelopeUnwrapAnyBody ==
    (c_pc = "done" /\ c_response.status # 0) =>
        IF IsEnvelope(c_response.body)
        THEN IF c_response.body.data.success
             THEN c_outcome = [kind |-> "return", detail |-> c_response.body.data.result]
             ELSE c_outcome = Raised("Exception", c_response.body.data.error)
        ELSE c_outcome.kind \in {"HTTPError", "ValueError"}

\* C8, amended: an envelope is unwrapped by its success flag: the result is
\* returned, or an Exception carrying the error string is raised; a body that is
\* no JSON raises the HTTP status error or the decoder's error; a JSON body that
\* is no envelope raises a lookup error; only a successful envelope returns.
EnvelopeUnwrap ==
    (c_pc = "done" /\ c_response.status # 0) =>
        IF IsEnvelope(c_response.body)
        THEN IF c_response.body.data.success
             THEN c_outcome = [kind |-> "return", detail |-> c_response.body.data.result]
             ELSE c_outcome = Raised("Exception", c_response.body.data.error)
        ELSE IF c_response.body.kind = "text"
             THEN c_outcome.kind \in {"HTTPError", "ValueError"}
             ELSE c_outcome.kind \in {"KeyError", "TypeError"}

EnvelopeUnwrapWitness ==
    /\ c_pc = "done"
    /\ c_response.status # 0
    /\ IsEnvelope(c_response.body)
    /\ c_outcome = Raised("Exception", "bad request")

\* The calls C9 is about.
Contradictory(op) ==
    \/ /\ op.name = "modify_order"
       /\ (op.existing_order_id = None) = (op.existing_client_order_id = None)
    \/ /\ op.name = "place_conditional_order"
       /\ op.order_type \in {"stop", "takeProfit"}
       /\ op.triggerPrice = None

\* C9: modify_order with both identifiers or with neither, and
\* place_conditional_order of type stop or takeProfit without a triggerPrice,
\* end in an AssertionError, and nothing has been signed or sent.
ValidationFirst ==
    Contradictory(c_op) =>
        /\ c_pc = "done"
        /\ c_outcome.kind = "AssertionError"
        /\ c_signed = <<>>
        /\ c_wire = <<>>

ValidationFirstWitness ==
    /\ c_op.name = "modify_order"
    /\ c_op.existing_order_id # None
    /\ c_op.existing_client_order_id # None
    /\ c_outcome.kind = "AssertionError"
    /\ c_wire = <<>>


====
